---- MODULE Spec2Model ----
(***************************************************************************)
(* Model of src/handler/symbols.ts: the per-buffer document symbol cache   *)
(* (class SymbolsBuffer) and the queries of class Symbols that read it.    *)
(*                                                                         *)
(* A provider call (languages.getDocumentSymbol) is the only suspension    *)
(* point: one entry of `calls` per call, pending until ProviderReturn.     *)
(* Code that runs between two awaits is one atomic action.                 *)
(***************************************************************************)
EXTENDS Integers, Sequences, FiniteSets, TLC

\* ------------------------------------------------------------------ bounds
MaxVersion == 3     \* document versions 1..MaxVersion
MaxInFlight == 2    \* provider calls outstanding at a time
MaxCoalesced == 2   \* fetchSymbols() invocations counted in one debounce window

\* ------------------------------------------------------- positions, ranges
\* A position is <<line, character>>, a range is <<sl, sc, el, ec>>.
NoRange == <<0, 0, 0, 0>>

Start(r) == <<r[1], r[2]>>

End(r) == <<r[3], r[4]>>

comparePosition(p, q) ==
    IF p[1] > q[1] \/ (p[1] = q[1] /\ p[2] > q[2]) THEN 1
    ELSE IF p[1] = q[1] /\ p[2] = q[2] THEN 0
    ELSE 0 - 1

positionInRange(pos, r) ==
    IF comparePosition(pos, Start(r)) < 0 THEN 0 - 1
    ELSE IF comparePosition(pos, End(r)) > 0 THEN 1
    ELSE 0

rangeInRange(r, range) ==
    positionInRange(Start(r), range) = 0 /\ positionInRange(End(r), range) = 0

equals(a, b) == a = b

\* ------------------------------------------------------------ the document
\* Text of the buffer, as far as selectSymbolRange reads it: per line (0-based)
\* the length of its leading whitespace and its full length.
DocLines ==
    << [indent |-> 0, len |-> 9],  [indent |-> 2, len |-> 12],
       [indent |-> 4, len |-> 14], [indent |-> 6, len |-> 10],
       [indent |-> 4, len |-> 5],  [indent |-> 2, len |-> 3],
       [indent |-> 0, len |-> 1],  [indent |-> 0, len |-> 8],
       [indent |-> 0, len |-> 0] >>

getline(l) ==
    IF l >= 0 /\ l < Len(DocLines) THEN DocLines[l + 1]
    ELSE [indent |-> 0, len |-> 0]

\* Display texts are sequences of chunks, so that a suffix can be tested.
CallbackSuffix == <<")", " callback">>

endsWith(text, suffix) ==
    /\ Len(text) >= Len(suffix)
    /\ SubSeq(text, Len(text) - Len(suffix) + 1, Len(text)) = suffix

\* Numeric SymbolKind of the protocol to the kind label of SymbolInfo.
getSymbolKind(kind) ==
    CASE kind = 5 -> "Class"
      [] kind = 6 -> "Method"
      [] kind = 12 -> "Function"
      [] kind = 13 -> "Variable"
      [] kind = 23 -> "Struct"
      [] OTHER -> "Unknown"

\* What the provider computes for the content of document version v.
\* A hierarchical result is a sequence of DocumentSymbol nodes, `parent` being
\* the index of the node whose children hold it (0: top level); a flat result
\* is a sequence of SymbolInformation. Neither is in document order.
TreeResult ==
    [shape |-> "tree", items |-> <<
        [name |-> <<"E">>, kind |-> 12, range |-> <<7, 0, 7, 8>>, parent |-> 0],
        [name |-> <<"C">>, kind |-> 12, range |-> <<2, 4, 4, 5>>, parent |-> 4],
        [name |-> <<"A">>, kind |-> 5,  range |-> <<0, 0, 6, 1>>, parent |-> 0],
        [name |-> <<"B">>, kind |-> 6,  range |-> <<1, 2, 5, 3>>, parent |-> 3],
        [name |-> <<"V">>, kind |-> 13, range |-> <<3, 6, 3, 9>>, parent |-> 2] >>]

FlatResult ==
    [shape |-> "flat", items |-> <<
        [name |-> <<"cb", "(", ")", " callback">>, kind |-> 12,
         range |-> <<3, 6, 3, 10>>, containerName |-> <<"F">>],
        [name |-> <<"G">>, kind |-> 23, range |-> <<7, 0, 7, 8>>, containerName |-> <<>>],
        [name |-> <<"F">>, kind |-> 12, range |-> <<1, 2, 5, 3>>, containerName |-> <<"K">>],
        [name |-> <<"K">>, kind |-> 5, range |-> <<0, 0, 6, 1>>, containerName |-> <<>>] >>]

EmptyResult == [shape |-> "flat", items |-> <<>>]

DocSymbols(v) ==
    CASE v % 3 = 1 -> TreeResult
      [] v % 3 = 2 -> FlatResult
      [] OTHER -> EmptyResult

\* ------------------------------------------------------------ normalisation
\* Range ordering of the sorts: by start, then by end descending.
RangeBefore(a, b) ==
    \/ comparePosition(Start(a), Start(b)) < 0
    \/ /\ comparePosition(Start(a), Start(b)) = 0
       /\ comparePosition(End(a), End(b)) > 0

RECURSIVE InsertSorted(_, _)
InsertSorted(s, x) ==
    IF s = <<>> THEN <<x>>
    ELSE IF RangeBefore(x.range, Head(s).range) THEN <<x>> \o s
    ELSE <<Head(s)>> \o InsertSorted(Tail(s), x)

RECURSIVE SortByRange(_)
SortByRange(s) ==
    IF s = <<>> THEN <<>>
    ELSE InsertSorted(SortByRange(SubSeq(s, 1, Len(s) - 1)), s[Len(s)])

sortDocumentSymbols(s) == SortByRange(s)

sortSymbolInformations(s) == SortByRange(s)

isDocumentSymbols(raw) == raw.shape = "tree" /\ raw.items # <<>>

RECURSIVE ChildrenFrom(_, _, _)
ChildrenFrom(nodes, p, i) ==
    IF i > Len(nodes) THEN <<>>
    ELSE (IF nodes[i].parent = p THEN <<nodes[i] @@ [id |-> i]>> ELSE <<>>)
         \o ChildrenFrom(nodes, p, i + 1)

RECURSIVE addDocumentSymbol(_, _, _)
RECURSIVE AddAll(_, _, _)
addDocumentSymbol(nodes, sym, level) ==
    << [text |-> sym.name, kind |-> getSymbolKind(sym.kind), level |-> level,
        range |-> sym.range, lnum |-> sym.range[1] + 1, col |-> sym.range[2] + 1] >>
    \o AddAll(nodes, sortDocumentSymbols(ChildrenFrom(nodes, sym.id, 1)), level + 1)

AddAll(nodes, syms, level) ==
    IF syms = <<>> THEN <<>>
    ELSE addDocumentSymbol(nodes, Head(syms), level) \o AddAll(nodes, Tail(syms), level)

FlatInfo(sym) ==
    [text |-> sym.name, kind |-> getSymbolKind(sym.kind), level |-> 0,
     range |-> sym.range, lnum |-> sym.range[1] + 1, col |-> sym.range[2] + 1,
     containerName |-> sym.containerName]

\* The `res` array _fetchSymbols builds from a provider result.
Normalize(raw) ==
    IF isDocumentSymbols(raw)
    THEN AddAll(raw.items, sortDocumentSymbols(ChildrenFrom(raw.items, 0, 1)), 0)
    ELSE LET sorted == sortSymbolInformations(raw.items)
         IN [i \in 1..Len(sorted) |-> FlatInfo(sorted[i])]

\* ------------------------------------------------------------------ queries
Positions == {<<3, 7>>, <<1, 3>>, <<7, 2>>, <<8, 0>>}

FunctionKinds == {"Class", "Method", "Function", "Struct"}

SupportedSymbols == {"Class", "Method", "Function"}

\* completionItemKindLabels, keyed by the lower-cased kind.
labels(kind) == IF kind = "Method" THEN <<"m">> ELSE <<>>

reverse(s) == [i \in 1..Len(s) |-> s[Len(s) + 1 - i]]

Min(S) == CHOOSE x \in S : \A y \in S : x <= y

\* Array.filter: a new array, the receiver is left alone.
filter(s, kinds) == SelectSeq(s, LAMBDA x : x.kind \in kinds)

InfoMatches(sym, position) ==
    /\ positionInRange(position, sym.range) = 0
    /\ ~endsWith(sym.text, CallbackSuffix)

\* getCurrentFunctionInfo after getDocumentSymbols returned `syms`, the cached
\* array itself: `cache` is that array afterwards (symbols.reverse() reverses
\* the receiver), `value` the info returned.
getCurrentFunctionInfo(syms, position) ==
    IF Len(syms) = 0 THEN [cache |-> syms, value |-> <<>>]
    ELSE LET rev == reverse(syms)
             hits == {i \in 1..Len(rev) : InfoMatches(rev[i], position)}
         IN [cache |-> rev,
             value |-> IF hits = {} THEN <<>>
                       ELSE <<rev[Min(hits)].text, Start(rev[Min(hits)].range),
                              End(rev[Min(hits)].range)>>]

\* getCurrentFunctionSymbol: filter() copies, so reverse() works on the copy.
\* functionUpdate is the preference currentFunctionSymbolAutoUpdate; published:
\* coc_current_function was set and CocStatusChange fired.
getCurrentFunctionSymbol(syms, position, functionUpdate) ==
    IF Len(syms) = 0 THEN [cache |-> syms, value |-> <<>>, published |-> TRUE]
    ELSE LET rev == reverse(filter(syms, FunctionKinds))
             hits == {i \in 1..Len(rev) : InfoMatches(rev[i], position)}
             sym == rev[Min(hits)]
         IN [cache |-> syms,
             value |-> IF hits = {} THEN <<>>
                       ELSE IF labels(sym.kind) # <<>>
                            THEN labels(sym.kind) \o <<" ">> \o sym.text
                            ELSE sym.text,
             published |-> functionUpdate]

\* selectSymbolRange: the range handed to workspace.selectRange, <<>> if none.
selectSymbolRange(syms, inner, range) ==
    IF Len(syms) = 0 THEN [cache |-> syms, value |-> <<>>]
    ELSE LET rev == reverse(filter(syms, SupportedSymbols))
             hits == {i \in 1..Len(rev) :
                         /\ ~equals(rev[i].range, range)
                         /\ rangeInRange(range, rev[i].range)}
             sel == rev[Min(hits)].range
         IN [cache |-> syms,
             value |-> IF hits = {} THEN <<>>
                       ELSE IF inner
                            THEN <<sel[1] + 1, getline(sel[1] + 1).indent,
                                   sel[3] - 1, getline(sel[3] - 1).len>>
                            ELSE sel]

\* -------------------------------------------------------------------- state
VARIABLES
    docVersion,   \* workspace.getDocument(bufnr).version
    version,      \* SymbolsBuffer.version, 0 while undefined
    symbols,      \* SymbolsBuffer.symbols (<<>> also once dispose() unset it)
    tokenSource,  \* SymbolsBuffer.tokenSource: index into calls, 0 if unset,
                  \* Settled if it holds the token of a call that has settled
    timer,        \* the debounce timer of fetchSymbols
    autoUpdate,   \* SymbolsBuffer.autoUpdate
    disposed,     \* dispose() has run
    calls,        \* the provider calls outstanding, in order of issue
    selection,    \* the editor's visual selection, as workspace.selectRange left it
    prevGet,      \* history: the last getSymbols() that returned a fresh cache
    fired,        \* _onDidUpdate.fire() calls of the step just taken
    ret           \* what the step just taken did for its caller

vars == <<docVersion, version, symbols, tokenSource, timer, autoUpdate, disposed,
          calls, selection, prevGet, fired, ret>>

\* n: fetchSymbols() invocations the pending timer coalesces (0: no timer);
\* crossed (history): the timer was pending when an onChange() returned.
NoTimer == [n |-> 0, crossed |-> FALSE]

NoGet == [set |-> FALSE, val |-> <<>>]

NoArg ==
    [pos |-> <<0, 0>>, ref |-> NoRange, inner |-> FALSE, chained |-> FALSE,
     functionUpdate |-> FALSE]

\* ret of a step that hands nothing to a caller.
Quiet ==
    [op |-> "none", arg |-> NoArg, outcome |-> "none", issued |-> 0,
     answer |-> "none", changed |-> FALSE, seen |-> <<>>, value |-> <<>>,
     prev |-> NoGet, hadTimer |-> FALSE, published |-> FALSE]

\* stable (history): the document has not changed since the selection was made.
NoSelection == [set |-> FALSE, range |-> NoRange, stable |-> FALSE]

Settled == 0 - 1

Init ==
    /\ docVersion = 1
    /\ version = 0
    /\ symbols = <<>>
    /\ tokenSource = 0
    /\ timer = NoTimer
    /\ autoUpdate = FALSE
    /\ disposed = FALSE
    /\ calls = <<>>
    /\ selection = NoSelection
    /\ prevGet = NoGet
    /\ fired = 0
    /\ ret = Quiet

Remove(s, i) == SubSeq(s, 1, i - 1) \o SubSeq(s, i + 1, Len(s))

\* cancel() without its fetchSymbols.clear().
cancelKeepsTimer(t, ts, cs) ==
    [timer |-> t,
     tokenSource |-> 0,
     calls |-> [i \in DOMAIN cs |->
                   IF i = ts THEN [cs[i] EXCEPT !.cancelled = TRUE] ELSE cs[i]]]

\* cancel() without its tokenSource.cancel().
cancelKeepsToken(t, ts, cs) == [timer |-> NoTimer, tokenSource |-> ts, calls |-> cs]

\* cancel(): clear the debounce timer, cancel and drop the tracked token.
cancel(t, ts, cs) ==
    [timer |-> NoTimer,
     tokenSource |-> 0,
     calls |-> [i \in DOMAIN cs |->
                   IF i = ts THEN [cs[i] EXCEPT !.cancelled = TRUE] ELSE cs[i]]]

\* The token _fetchSymbols makes and the provider call it issues with it, for
\* the version v it sampled; op is who awaits it, origin the timer that fired.
NewCall(v, op, arg, origin) ==
    [v |-> v, cancelled |-> FALSE, op |-> op, arg |-> arg, origin |-> origin]

\* _fetchSymbols without its version gate.
fetchStartUngated(ts, cs, op, arg, origin) ==
    [tokenSource |-> Len(cs) + 1,
     calls |-> Append(cs, NewCall(docVersion, op, arg, origin))]

\* _fetchSymbols up to its await: nothing if the cache is of the document's
\* version, else a new token, tracked in place of any other, and its call.
fetchStart(ts, cs, op, arg, origin) ==
    IF docVersion = version
    THEN [tokenSource |-> ts, calls |-> cs]
    ELSE [tokenSource |-> Len(cs) + 1,
          calls |-> Append(cs, NewCall(docVersion, op, arg, origin))]

\* What a caller of getSymbols does with the array it got.
Query(op, arg, syms) ==
    CASE op = "info" -> getCurrentFunctionInfo(syms, arg.pos)
      [] op = "func" -> getCurrentFunctionSymbol(syms, arg.pos, arg.functionUpdate)
      [] op = "select" -> selectSymbolRange(syms, arg.inner, arg.ref)
      [] OTHER -> [cache |-> syms, value |-> syms]

\* workspace.selectRange(selectRange), or the selection kept as it was.
Select(op, arg, value) ==
    IF op = "select" /\ value # <<>>
    THEN [set |-> TRUE, range |-> value, stable |-> TRUE]
    ELSE selection

\* getSymbols() up to its await and, when the cache is fresh, its caller to
\* the end.
StartOp(op, arg) ==
    /\ ~disposed
    /\ autoUpdate' = TRUE
    /\ fired' = 0
    /\ IF docVersion = version
       THEN LET q == Query(op, arg, symbols)
            IN /\ symbols' = q.cache
               /\ selection' = Select(op, arg, q.value)
               /\ ret' = [Quiet EXCEPT !.op = op, !.arg = arg, !.outcome = "returned",
                                       !.seen = symbols, !.value = q.value,
                                       !.prev = prevGet,
                                       !.published = (op = "func" /\ q.published)]
               /\ prevGet' = [set |-> TRUE, val |-> symbols]
               /\ UNCHANGED <<timer, tokenSource, calls>>
       ELSE LET c == cancel(timer, tokenSource, calls)
                f == fetchStart(c.tokenSource, c.calls, op, arg, NoTimer)
            IN /\ Len(calls) < MaxInFlight
               /\ timer' = c.timer
               /\ calls' = f.calls
               /\ tokenSource' = f.tokenSource
               /\ ret' = [Quiet EXCEPT !.op = op, !.outcome = "awaiting", !.issued = 1,
                                       !.prev = prevGet]
               /\ UNCHANGED <<symbols, selection, prevGet>>
    /\ UNCHANGED <<docVersion, version, disposed>>

GetDocumentSymbols == StartOp("getSymbols", NoArg)

GetCurrentFunctionInfo ==
    \E p \in Positions : StartOp("info", [NoArg EXCEPT !.pos = p])

GetCurrentFunctionSymbol ==
    \E p \in Positions, u \in BOOLEAN :
        StartOp("func", [NoArg EXCEPT !.pos = p, !.functionUpdate = u])

\* visualmode set: the reference range is the selection; else the cursor.
SelectSymbolRange ==
    \E inner \in BOOLEAN :
        \/ /\ selection.set
           /\ StartOp("select", [NoArg EXCEPT !.ref = selection.range,
                                               !.inner = inner,
                                               !.chained = selection.stable])
        \/ \E p \in Positions :
              StartOp("select", [NoArg EXCEPT !.pos = p, !.ref = p \o p,
                                               !.inner = inner])

\* fetchSymbols(): (re)start the debounce window.
FetchSymbols ==
    /\ ~disposed
    /\ timer.n < MaxCoalesced
    /\ timer' = [timer EXCEPT !.n = @ + 1]
    /\ fired' = 0
    /\ ret' = Quiet
    /\ UNCHANGED <<docVersion, version, symbols, tokenSource, autoUpdate, disposed,
                   calls, selection, prevGet>>

\* The debounce window elapsed: _fetchSymbols().logError() up to its await.
TimerFire ==
    /\ timer.n > 0
    /\ docVersion # version => Len(calls) < MaxInFlight
    /\ timer' = NoTimer
    /\ LET f == fetchStart(tokenSource, calls, "timer", NoArg, timer)
       IN /\ calls' = f.calls
          /\ tokenSource' = f.tokenSource
    /\ fired' = 0
    /\ ret' = [Quiet EXCEPT !.op = "timer", !.issued = Len(calls') - Len(calls)]
    /\ UNCHANGED <<docVersion, version, symbols, autoUpdate, disposed, selection,
                   prevGet>>

\* The document changes: its version advances and onChange() runs.
Edit ==
    /\ ~disposed
    /\ docVersion < MaxVersion
    /\ docVersion' = docVersion + 1
    /\ LET c == cancel(timer, tokenSource, calls)
       IN /\ timer' = [c.timer EXCEPT !.crossed = (c.timer.n > 0)]
          /\ tokenSource' = c.tokenSource
          /\ calls' = c.calls
    /\ prevGet' = NoGet
    /\ fired' = 0
    /\ selection' = [selection EXCEPT !.stable = FALSE]
    /\ ret' = [Quiet EXCEPT !.op = "onChange", !.hadTimer = (timer.n > 0)]
    /\ UNCHANGED <<version, symbols, autoUpdate, disposed>>

\* InsertEnter: buf.cancel().
InsertEnter ==
    /\ ~disposed
    /\ LET c == cancel(timer, tokenSource, calls)
       IN /\ timer' = c.timer
          /\ tokenSource' = c.tokenSource
          /\ calls' = c.calls
    /\ fired' = 0
    /\ ret' = Quiet
    /\ UNCHANGED <<docVersion, version, symbols, autoUpdate, disposed, selection,
                   prevGet>>

Dispose ==
    /\ ~disposed
    /\ disposed' = TRUE
    /\ LET c == cancel(timer, tokenSource, calls)
       IN /\ timer' = c.timer
          /\ tokenSource' = c.tokenSource
          /\ calls' = c.calls
    /\ symbols' = <<>>
    /\ fired' = 0
    /\ ret' = Quiet
    /\ UNCHANGED <<docVersion, version, autoUpdate, selection, prevGet>>

\* The guard of the commit without its test of the token.
CommitsIgnoringToken(c, outcome) == outcome = "ok"

\* The guard of the commit, taking a result without symbols for an absent one.
CommitsNonEmpty(c, outcome) ==
    outcome = "ok" /\ ~c.cancelled /\ DocSymbols(c.v).items # <<>>

\* Whether _fetchSymbols goes on to commit once the provider answered.
Commits(c, outcome) == outcome = "ok" /\ ~c.cancelled

\* A _fetchSymbols that writes this.version and not this.symbols.
ProviderReturnVersionOnly(i, outcome) ==
    /\ calls' = Remove(calls, i)
    /\ version' = calls[i].v
    /\ fired' = 1
    /\ tokenSource' = 0
    /\ ret' = [Quiet EXCEPT !.op = "fetched", !.answer = outcome]
    /\ UNCHANGED <<docVersion, symbols, timer, autoUpdate, disposed, selection,
                   prevGet>>

\* languages.getDocumentSymbol settles for call i: the rest of _fetchSymbols,
\* then of getSymbols and of its caller. A rejection passes through both, and
\* is logged when the debounced callback made the call (ret.op "fetched").
ProviderReturn(i, outcome) ==
    LET c == calls[i]
        commit == Commits(c, outcome)
        after == IF commit THEN Normalize(DocSymbols(c.v)) ELSE symbols
        q == Query(c.op, c.arg, after)
        r == [Quiet EXCEPT !.op = c.op, !.arg = c.arg, !.issued = 1,
                           !.answer = outcome, !.changed = (docVersion # c.v)]
        done == [Quiet EXCEPT !.op = "fetched", !.answer = outcome]
    IN /\ calls' = Remove(calls, i)
       /\ IF outcome = "throw"
          THEN /\ ret' = IF c.op = "timer" THEN done
                         ELSE [r EXCEPT !.outcome = "threw", !.seen = symbols]
               /\ fired' = 0
               /\ tokenSource' = IF tokenSource = i THEN Settled
                                 ELSE IF tokenSource > i THEN tokenSource - 1
                                 ELSE tokenSource
               /\ UNCHANGED <<version, symbols, selection, prevGet>>
          ELSE /\ tokenSource' = 0
               /\ version' = IF commit THEN c.v ELSE version
               /\ fired' = IF commit THEN 1 ELSE 0
               /\ IF c.op = "timer"
                  THEN /\ symbols' = after
                       /\ ret' = done
                       /\ UNCHANGED <<selection, prevGet>>
                  ELSE /\ symbols' = q.cache
                       /\ selection' = Select(c.op, c.arg, q.value)
                       /\ ret' = [r EXCEPT !.outcome = "returned", !.seen = after,
                                           !.value = q.value,
                                           !.published =
                                               (c.op = "func" /\ q.published)]
                       /\ prevGet' = IF version' = docVersion
                                     THEN [set |-> TRUE, val |-> after]
                                     ELSE prevGet
       /\ UNCHANGED <<docVersion, timer, autoUpdate, disposed>>

ProviderSettles ==
    \E i \in DOMAIN calls, outcome \in {"ok", "null", "throw"} :
        ProviderReturn(i, outcome)

\* The cache and everything that drives its fetches.
Next ==
    \/ GetDocumentSymbols
    \/ FetchSymbols
    \/ TimerFire
    \/ Edit
    \/ InsertEnter
    \/ Dispose
    \/ ProviderSettles

Spec == Init /\ [][Next]_vars

\* The cache under the queries that read it, asked one at a time.
NextQuery ==
    \/ GetDocumentSymbols
    \/ calls = <<>> /\ GetCurrentFunctionInfo
    \/ calls = <<>> /\ GetCurrentFunctionSymbol
    \/ Edit
    \/ ProviderSettles

SpecQuery == Init /\ [][NextQuery]_vars

\* The cache under selectSymbolRange, invoked one at a time.
NextSelect ==
    \/ calls = <<>> /\ SelectSymbolRange
    \/ calls = <<>> /\ GetCurrentFunctionInfo
    \/ Edit
    \/ ProviderSettles

SpecSelect == Init /\ [][NextSelect]_vars

\* ------------------------------------------------------------------- claims
Outstanding == {i \in DOMAIN calls : ~calls[i].cancelled}

\* C1: the committed version never decreases: no fetch overwrites the snapshot
\* of a later document version with that of the earlier version it sampled.
C1_VersionMonotonic == [][version' >= version]_vars

\* C2: at most one provider call whose token is not cancelled is outstanding.
C2_OneOutstanding == Cardinality(Outstanding) <= 1

\* C3: a fetch commits nothing if the document changed (onChange ran) between
\* its start and the return of its provider call: a commit just made is of the
\* version the document still has.
C3_StaleDiscarded == fired = 1 => version = docVersion

\* C4: a getSymbols call made after one that returned a fresh cache, with no
\* document change in between, issues no provider call and returns what that
\* one returned, in the same order.
C4_Idempotent ==
    (ret.prev.set /\ ret.outcome \in {"returned", "awaiting"}) =>
        /\ ret.issued = 0
        /\ ret.outcome = "returned" => ret.seen = ret.prev.val

\* C5: the cached array changes only by a commit replacing it.
C5_NeverMutated == [][symbols' = symbols \/ fired' = 1]_vars

Elems(s) == {s[i] : i \in DOMAIN s}

Containing(S, pos) == {x \in S : InfoMatches(x, pos)}

\* The most deeply nested of the symbols of S around pos.
Innermost(S, pos) ==
    CHOOSE x \in Containing(S, pos) :
        \A y \in Containing(S, pos) : rangeInRange(x.range, y.range)

Decorated(x) ==
    IF labels(x.kind) # <<>> THEN labels(x.kind) \o <<" ">> \o x.text ELSE x.text

\* C6: every call of getCurrentFunctionInfo and of getCurrentFunctionSymbol
\* answers with the innermost symbol (of the kinds it looks at) around the
\* cursor, and with the empty result if there is none.
C6_Innermost ==
    /\ (ret.op = "info" /\ ret.outcome = "returned") =>
          LET S == Elems(ret.seen)
          IN ret.value =
                IF Containing(S, ret.arg.pos) = {} THEN <<>>
                ELSE LET x == Innermost(S, ret.arg.pos)
                     IN <<x.text, Start(x.range), End(x.range)>>
    /\ (ret.op = "func" /\ ret.outcome = "returned") =>
          LET S == {x \in Elems(ret.seen) : x.kind \in FunctionKinds}
          IN ret.value =
                IF Containing(S, ret.arg.pos) = {} THEN <<>>
                ELSE Decorated(Innermost(S, ret.arg.pos))

\* C7: when the provider call of a getSymbols fails, getSymbols still returns
\* to its caller, with the snapshot committed before.
C7_ForcedDegrades ==
    (ret.op = "getSymbols" /\ ret.answer = "throw") =>
        ret.outcome = "returned" /\ ret.value = symbols

\* C8: once dispose() has run, no step writes version or symbols or fires an
\* update, and no debounce timer is left to fire.
C8_DisposeSafe ==
    [][disposed => /\ version' = version
                   /\ symbols' = symbols
                   /\ fired' = 0
                   /\ timer'.n = 0]_vars

\* C9: no debounce timer outlives an onChange(), and no provider call is issued
\* by a timer that was pending when onChange() ran.
C9_CancellationSafe ==
    /\ ~timer.crossed
    /\ \A i \in DOMAIN calls : ~calls[i].origin.crossed

\* onChange() has just run with a debounce timer pending.
C9_Witness == ret.op = "onChange" /\ ret.hadTimer /\ timer.n = 0

StrictlyEncloses(a, b) == rangeInRange(b, a) /\ a # b

\* C10: selectSymbolRange invoked on the range its previous invocation selected,
\* the document unchanged, selects a range strictly enclosing it, or nothing.
C10_Walk ==
    (ret.op = "select" /\ ret.outcome = "returned" /\ ret.arg.chained /\ ~ret.changed) =>
        ret.value = <<>> \/ StrictlyEncloses(ret.value, ret.arg.ref)

\* The outward walk of C10 where the symbol's own range is selected.
C10_OuterWalk == ret.arg.inner \/ C10_Walk

AllAround(S, pos) == {x \in S : positionInRange(pos, x.range) = 0}

\* The most deeply nested symbol of S around pos is a callback.
InnermostIsCallback(S, pos) ==
    \E x \in AllAround(S, pos) :
        /\ endsWith(x.text, CallbackSuffix)
        /\ \A y \in AllAround(S, pos) : rangeInRange(x.range, y.range)

\* C11: when the innermost symbol around the cursor is a ") callback" symbol,
\* getCurrentFunctionInfo and getCurrentFunctionSymbol answer with the next
\* enclosing symbol that is not one, and with the empty result if there is none.
C11_CallbackSkipped ==
    /\ (ret.op = "info" /\ ret.outcome = "returned"
            /\ InnermostIsCallback(Elems(ret.seen), ret.arg.pos)) =>
          LET S == Elems(ret.seen)
          IN ret.value =
                IF Containing(S, ret.arg.pos) = {} THEN <<>>
                ELSE LET x == Innermost(S, ret.arg.pos)
                     IN <<x.text, Start(x.range), End(x.range)>>
    /\ (ret.op = "func" /\ ret.outcome = "returned"
            /\ InnermostIsCallback({x \in Elems(ret.seen) : x.kind \in FunctionKinds},
                                   ret.arg.pos)) =>
          LET S == {x \in Elems(ret.seen) : x.kind \in FunctionKinds}
          IN ret.value =
                IF Containing(S, ret.arg.pos) = {} THEN <<>>
                ELSE Decorated(Innermost(S, ret.arg.pos))

\* The part of C11 that holds: no answer is a ") callback" symbol.
C11_NeverCallback ==
    /\ (ret.op = "info" /\ ret.outcome = "returned" /\ ret.value # <<>>) =>
          ~endsWith(ret.value[1], CallbackSuffix)
    /\ (ret.op = "func" /\ ret.outcome = "returned") =>
          ~endsWith(ret.value, CallbackSuffix)

\* C12: with the auto-update preference off, getCurrentFunctionSymbol publishes
\* nothing, whatever the snapshot.
C12_PublishGated ==
    (ret.op = "func" /\ ret.outcome = "returned" /\ ~ret.arg.functionUpdate) =>
        ~ret.published

\* The part of C12 that holds: nothing is published for a snapshot that has
\* symbols while the preference is off, and the name is returned either way.
C12_GatedNonEmpty ==
    (ret.op = "func" /\ ret.outcome = "returned" /\ ret.seen # <<>>) =>
        /\ ret.published = ret.arg.functionUpdate
        /\ ret.value = getCurrentFunctionSymbol(ret.seen, ret.arg.pos, FALSE).value

\* C13: a getSymbols that found the cache stale, whose provider call answered
\* with symbols while the document stayed at the version it had, returns the
\* snapshot of that version, then the committed one.
C13_ForcedFresh ==
    (ret.op = "getSymbols" /\ ret.outcome = "returned" /\ ret.issued = 1
        /\ ret.answer = "ok" /\ ~ret.changed) =>
        /\ version = docVersion
        /\ ret.value = Normalize(DocSymbols(docVersion))

\* C14: a commit writes the version its fetch sampled together with the
\* normalised provider result of that version and fires one update; a step
\* that fires none writes neither.
C14_CommitAtomic ==
    [][/\ fired' \in {0, 1}
       /\ fired' = 1 =>
             \E i \in DOMAIN calls :
                 /\ calls' = Remove(calls, i)
                 /\ version' = calls[i].v
                 /\ symbols' = Normalize(DocSymbols(calls[i].v))
       /\ fired' = 0 => /\ version' = version
                        /\ symbols' = symbols \/ disposed']_vars

\* A commit has just been made.
C14_Witness ==
    fired = 1 /\ symbols # <<>> /\ symbols = Normalize(DocSymbols(version))

\* C15: a fetch whose token was cancelled before its provider call returned,
\* or whose provider call answered null, leaves version and symbols as they
\* were and fires no update.
C15_NoCommit ==
    [][\A i \in DOMAIN calls :
          (/\ calls' = Remove(calls, i)
           /\ calls[i].cancelled \/ ret'.answer = "null") =>
              /\ version' = version
              /\ symbols' = symbols
              /\ fired' = 0]_vars

\* A fetch has just ended on a null answer, a snapshot being cached.
C15_Witness == ret.answer = "null" /\ version > 0 /\ symbols # <<>>

IsEmptyVersion(v) == v > 0 /\ DocSymbols(v).items = <<>>

\* C16: a provider result without symbols, for a fetch not cancelled, is
\* committed as the empty snapshot of the fetch's version; getSymbols at that
\* version then returns the empty sequence and issues no provider call.
C16_EmptyCommitted ==
    [][/\ \A i \in DOMAIN calls :
             (/\ calls' = Remove(calls, i)
              /\ ~calls[i].cancelled
              /\ ret'.answer = "ok"
              /\ IsEmptyVersion(calls[i].v)) =>
                 /\ version' = calls[i].v
                 /\ symbols' = <<>>
                 /\ fired' = 1
       /\ (/\ ret'.op = "getSymbols"
           /\ ret'.answer = "none"
           /\ version = docVersion
           /\ IsEmptyVersion(version)) =>
              /\ ret'.outcome = "returned"
              /\ ret'.issued = 0
              /\ ret'.value = <<>>]_vars

\* getSymbols has just served the committed empty snapshot.
C16_Witness ==
    /\ ret.op = "getSymbols" /\ ret.outcome = "returned" /\ ret.issued = 0
    /\ IsEmptyVersion(version) /\ version = docVersion /\ symbols = <<>>

\* C17: onChange() clears the debounce timer, cancels and drops the tracked
\* token, issues no provider call and leaves version and symbols as they were.
C17_OnChangeFrame ==
    [][ret'.op = "onChange" =>
          /\ timer'.n = 0
          /\ tokenSource' = 0
          /\ tokenSource \in DOMAIN calls => calls'[tokenSource].cancelled
          /\ Len(calls') = Len(calls)
          /\ version' = version
          /\ symbols' = symbols
          /\ fired' = 0]_vars

\* onChange() has just run on a cached snapshot with a fetch in flight.
C17_Witness ==
    /\ ret.op = "onChange" /\ symbols # <<>> /\ version > 0
    /\ \E i \in DOMAIN calls : calls[i].cancelled

\* C18: when the debounce window elapses, however many fetchSymbols() calls it
\* coalesced, one _fetchSymbols runs: it issues no provider call if the cache is
\* of the document's version, else one, for that version, with a fresh token
\* that is the tracked one.
C18_Coalesced ==
    [][ret'.op = "timer" =>
          /\ timer.n >= 1
          /\ timer'.n = 0
          /\ ret'.issued = (IF docVersion = version THEN 0 ELSE 1)
          /\ Len(calls') = Len(calls) + ret'.issued
          /\ ret'.issued = 1 =>
                /\ tokenSource' = Len(calls')
                /\ ~calls'[Len(calls')].cancelled
                /\ calls'[Len(calls')].v = docVersion]_vars

\* A window that coalesced several fetchSymbols() calls has elapsed and its one
\* provider call is outstanding.
C18_Witness ==
    /\ ret.op = "timer" /\ ret.issued = 1
    /\ calls[Len(calls)].origin.n = MaxCoalesced

\* C19: every outstanding provider call whose token is not cancelled is the
\* one whose token tokenSource holds.
C19_Tracked == \A i \in Outstanding : tokenSource = i

\* The symbol range the scan of selectSymbolRange matched.
Matched(syms, range) == selectSymbolRange(syms, FALSE, range).value

\* C20: the range selectSymbolRange selects with inner = TRUE has its start at
\* or before its end and lies within the range of the symbol matched.
C20_InnerWellFormed ==
    (ret.op = "select" /\ ret.outcome = "returned" /\ ret.arg.inner
        /\ ret.value # <<>>) =>
        /\ comparePosition(Start(ret.value), End(ret.value)) <= 0
        /\ rangeInRange(ret.value, Matched(ret.seen, ret.arg.ref))

\* The part of C20 that holds: symbols of three lines and more.
C20_InnerOfLong ==
    (ret.op = "select" /\ ret.outcome = "returned" /\ ret.arg.inner
        /\ ret.value # <<>>
        /\ Matched(ret.seen, ret.arg.ref)[3] - Matched(ret.seen, ret.arg.ref)[1] >= 2) =>
        /\ comparePosition(Start(ret.value), End(ret.value)) <= 0
        /\ rangeInRange(ret.value, Matched(ret.seen, ret.arg.ref))

====
